---- MODULE Spec2Model ----
(***************************************************************************)
(* Model of redis-openAI-doc-chat.ipynb: a notebook that reads its         *)
(* configuration from the environment, builds a Redis connection string,   *)
(* ingests ./docs into a Redis vector index through LlamaIndex, asks three *)
(* questions, and then replays three questions under a TruLens recorder.   *)
(*                                                                         *)
(* The notebook is modelled as "Run All": the code cells execute in file   *)
(* order and the run stops at the first cell that raises.  Calls into the  *)
(* libraries (LlamaIndex, redis, TruLens) are calls to external services;  *)
(* each of them either returns or raises, and the notebook has no          *)
(* try/except anywhere, so a raise ends the run.                           *)
(***************************************************************************)
EXTENDS Integers, Sequences, FiniteSets, TLC

VARIABLES
    pc,          \* the next code cell to execute, or "done" / "failed"
    env,         \* os.environ restricted to the keys the notebook reads
    using_ssl,   \* the argument of format_redis_conn_from_env
    redis_url,   \* the notebook global redis_url
    err,         \* the exception that ended the run, "none" otherwise
    executed,    \* pipeline steps whose cell has completed
    overwrite,   \* the overwrite flag held by vector_store
    indexExists, \* Redis: the search index chevy_docs exists
    entries,     \* Redis: the entries stored under prefix blog
    prior,       \* what create_index found when ingestion ran
    response,    \* the notebook global response (last direct query)
    records,     \* the TruLens database (default.sqlite): sequence of records
    recorder,    \* tru_recorder has been constructed
    queried      \* questions the evaluation loop has passed to query()

vars == <<pc, env, using_ssl, redis_url, err, executed, overwrite, indexExists,
          entries, prior, response, records, recorder, queried>>

(***************************************************************************)
(* Bounds                                                                  *)
(***************************************************************************)
MaxStrLen == 1
MaxMissing == 1
MaxOldEntries == 2
MaxChunks == 2
MaxOldRecords == 1

(***************************************************************************)
(* Python values: None, or a str held as a sequence of characters.         *)
(***************************************************************************)
PyNone == [none |-> TRUE, s |-> <<>>]

PyStr(s) == [none |-> FALSE, s |-> s]

Alphabet == {"a", "1"}

RECURSIVE StrsOfLen(_)
StrsOfLen(n) ==
    IF n = 0 THEN {<<>>}
    ELSE {Append(s, c) : s \in StrsOfLen(n - 1), c \in Alphabet}

StrVals == UNION {StrsOfLen(n) : n \in 0..MaxStrLen}

PyVals == {PyNone} \cup {PyStr(s) : s \in StrVals}

\* f"{v}": the str() of a value; None formats as the four letters None.
Fmt(v) == IF v.none THEN <<"N", "o", "n", "e">> ELSE v.s

\* os.getenv(key, default)
getenv(key, default) == IF env[key].none THEN default ELSE env[key]

Digits == {"0", "1", "2", "3", "4", "5", "6", "7", "8", "9"}

\* int(v) / float(v): TypeError on None, ValueError on a non-numeric string.
PyNumError(v) ==
    IF v.none THEN "TypeError"
    ELSE IF v.s = <<>> \/ \E i \in 1..Len(v.s) : v.s[i] \notin Digits
         THEN "ValueError"
         ELSE "none"

AzureKeys == {"AZURE_API_BASE", "AZURE_API_VERSION", "AZURE_API_KEY",
              "AZURE_EMBEDDING_MODEL", "AZURE_TEXT_MODEL",
              "AZURE_EMBED_MODEL_DEPLOYMENT_NAME",
              "AZURE_TEXT_MODEL_DEPLOYMENT_NAME"}

NumericKeys == {"OPENAI_MAX_TOKENS", "CHUNK_SIZE", "CHUNK_OVERLAP"}

RedisKeys == {"REDIS_HOST", "REDIS_PORT", "REDIS_USERNAME", "REDIS_PASSWORD"}

\* The keys read without a default; REDIS_USERNAME and REDIS_PASSWORD have one.
RequiredKeys == AzureKeys \cup NumericKeys \cup {"REDIS_HOST", "REDIS_PORT"}

Keys == AzureKeys \cup NumericKeys \cup RedisKeys

\* The required keys whose value the notebook's own code converts or formats.
\* The Azure values are only handed on to the client constructors, which may
\* raise whatever they are given.
ConvertedKeys == NumericKeys \cup {"REDIS_HOST", "REDIS_PORT"}

(***************************************************************************)
(* format_redis_conn_from_env                                              *)
(***************************************************************************)
SchemeTLS == <<"r", "e", "d", "i", "s", "s", ":", "/", "/">>

SchemePlain == <<"r", "e", "d", "i", "s", ":", "/", "/">>

format_redis_conn_from_env_userGuard(ssl) ==
    LET start    == IF ssl THEN SchemeTLS ELSE SchemePlain
        password == getenv("REDIS_PASSWORD", PyNone)
        username == getenv("REDIS_USERNAME", PyStr(<<>>))
        start2   == IF ~env["REDIS_USERNAME"].none
                    THEN start \o Fmt(username) \o <<":">> \o Fmt(password) \o <<"@">>
                    ELSE start
    IN  start2 \o Fmt(getenv("REDIS_HOST", PyNone)) \o <<":">>
               \o Fmt(getenv("REDIS_PORT", PyNone))

format_redis_conn_from_env(ssl) ==
    LET start    == IF ssl THEN SchemeTLS ELSE SchemePlain
        password == getenv("REDIS_PASSWORD", PyNone)
        username == getenv("REDIS_USERNAME", PyStr(<<>>))
        start2   == IF ~password.none
                    THEN start \o Fmt(username) \o <<":">> \o Fmt(password) \o <<"@">>
                    ELSE start
    IN  start2 \o Fmt(getenv("REDIS_HOST", PyNone)) \o <<":">>
               \o Fmt(getenv("REDIS_PORT", PyNone))

(***************************************************************************)
(* The notebook's literals                                                 *)
(***************************************************************************)
\* overwrite=True in the RedisVectorStore(...) call
OverwriteArgOff == FALSE

OverwriteArg == TRUE

eval_questions == <<"variants", "engines", "towing">>

\* The questions of the three direct query cells, in cell order.
direct_questions == <<"variants", "towing", "engines">>

NoResponse == [question |-> "none", source_nodes |-> {}]

NoPrior == [ran |-> FALSE, existed |-> FALSE, entries |-> {}]

OldEntries == {[gen |-> "old", id |-> i] : i \in 1..MaxOldEntries}

NewEntries(n) == {[gen |-> "new", id |-> i] : i \in 1..n}

OldRecord == [input |-> "variants", run |-> "old"]

RECURSIVE Repeat(_, _)
Repeat(x, n) == IF n = 0 THEN <<>> ELSE Append(Repeat(x, n - 1), x)

SetValue == PyStr(<<"1">>)

(***************************************************************************)
(* Vector store operations the notebook reaches through LlamaIndex         *)
(***************************************************************************)
\* create_index(name, prefix, dimension, overwrite) on the store's state.
create_index(exists, stored, ow) ==
    IF exists /\ ow THEN {} ELSE stored

upsert(stored, new) == stored \cup new

\* tru.reset_database()
reset_database_keep(db) == db

reset_database(db) == <<>>

(***************************************************************************)
(* Initial state: a fresh kernel.  Redis and the TruLens database outlive  *)
(* the kernel, so they may hold what an earlier run left behind.           *)
(***************************************************************************)
Init ==
    /\ pc = "env"
    /\ \E missing \in SUBSET ConvertedKeys :
         /\ Cardinality(missing) <= MaxMissing
         /\ \E optional \in SUBSET {"REDIS_USERNAME", "REDIS_PASSWORD"} :
              env = [k \in Keys |->
                       IF k \in missing \/ k \in optional THEN PyNone ELSE SetValue]
    /\ using_ssl = FALSE
    /\ redis_url = <<>>
    /\ err = "none"
    /\ executed = {}
    /\ overwrite = FALSE
    /\ indexExists \in BOOLEAN
    /\ entries \in SUBSET OldEntries
    /\ prior = NoPrior
    /\ response = NoResponse
    /\ records \in {Repeat(OldRecord, n) : n \in 0..MaxOldRecords}
    /\ recorder = FALSE
    /\ queried = <<>>

\* The run stops with exception e; nothing else changes.
Raise(e) ==
    /\ pc' = "failed"
    /\ err' = e
    /\ UNCHANGED <<env, using_ssl, redis_url, executed, overwrite, indexExists,
                   entries, prior, response, records, recorder, queried>>

\* The cell completes and the run moves to cell next; only pc changes.
Goto(next) ==
    /\ pc' = next
    /\ UNCHANGED <<env, using_ssl, redis_url, err, executed, overwrite,
                   indexExists, entries, prior, response, records, recorder,
                   queried>>

\* api_base = os.getenv(...) ... : os.getenv never raises.
CellEnv ==
    /\ pc = "env"
    /\ Goto("clients")

\* llm = AzureOpenAI(...); embedding_llm = AzureOpenAIEmbedding(...)
CellClients ==
    /\ pc = "clients"
    /\ \/ /\ pc' = "load"
          /\ executed' = executed \cup {"client_construction"}
          /\ UNCHANGED <<env, using_ssl, redis_url, err, overwrite, indexExists,
                         entries, prior, response, records, recorder, queried>>
       \/ Raise("LibraryError")

\* documents = SimpleDirectoryReader('./docs').load_data()
CellLoad ==
    /\ pc = "load"
    /\ \/ /\ pc' = "prompt_helper"
          /\ executed' = executed \cup {"document_loading"}
          /\ UNCHANGED <<env, using_ssl, redis_url, err, overwrite, indexExists,
                         entries, prior, response, records, recorder, queried>>
       \/ Raise("LibraryError")

\* num_output = int(os.getenv(...)); ...; prompt_helper = PromptHelper(...)
CellPromptHelper ==
    /\ pc = "prompt_helper"
    /\ LET e1 == PyNumError(getenv("OPENAI_MAX_TOKENS", PyNone))
           e2 == PyNumError(getenv("CHUNK_SIZE", PyNone))
           e3 == PyNumError(getenv("CHUNK_OVERLAP", PyNone))
       IN  IF e1 # "none" THEN Raise(e1)
           ELSE IF e2 # "none" THEN Raise(e2)
           ELSE IF e3 # "none" THEN Raise(e3)
           ELSE Goto("service_context") \/ Raise("LibraryError")

\* service_context = ServiceContext.from_defaults(...)
CellServiceContext ==
    /\ pc = "service_context"
    /\ Goto("redis_url") \/ Raise("LibraryError")

\* redis_url = format_redis_conn_from_env(using_ssl=False)
CellRedisUrl ==
    /\ pc = "redis_url"
    /\ redis_url' = format_redis_conn_from_env(using_ssl)
    /\ pc' = "vector_store"
    /\ UNCHANGED <<env, using_ssl, err, executed, overwrite, indexExists,
                   entries, prior, response, records, recorder, queried>>

\* vector_store = RedisVectorStore(..., overwrite=True); vector_store.client.ping()
CellVectorStore ==
    /\ pc = "vector_store"
    /\ \/ /\ pc' = "ingest"
          /\ overwrite' = OverwriteArg
          /\ executed' = executed \cup {"client_construction"}
          /\ UNCHANGED <<env, using_ssl, redis_url, err, indexExists, entries,
                         prior, response, records, recorder, queried>>
       \/ Raise("LibraryError")

\* index = GPTVectorStoreIndex.from_documents(documents, ...): the documents
\* are chunked and embedded, then the store creates the index and writes the
\* entries.  No chunks: nothing is sent to the store.
CellIngest ==
    /\ pc = "ingest"
    /\ \/ \E n \in 0..MaxChunks :
            /\ pc' = "query1"
            /\ IF n = 0
               THEN UNCHANGED <<indexExists, entries, prior, executed>>
               ELSE /\ prior' = [ran |-> TRUE, existed |-> indexExists,
                                 entries |-> entries]
                    /\ indexExists' = TRUE
                    /\ entries' = upsert(create_index(indexExists, entries, overwrite),
                                         NewEntries(n))
                    /\ executed' = executed \cup {"index_creation", "ingestion"}
            /\ UNCHANGED <<env, using_ssl, redis_url, err, overwrite, response,
                           records, recorder, queried>>
       \/ Raise("LibraryError")

\* response = query_engine.query("..."): the i-th direct query cell.
CellQuery(i) ==
    /\ pc = <<"query1", "query2", "query3">>[i]
    /\ \/ \E ctx \in SUBSET entries :
            /\ response' = [question |-> direct_questions[i], source_nodes |-> ctx]
            /\ pc' = <<"query2", "query3", "feedback_reset">>[i]
            /\ executed' = executed \cup {"query"}
            /\ UNCHANGED <<env, using_ssl, redis_url, err, overwrite, indexExists,
                           entries, prior, records, recorder, queried>>
       \/ Raise("LibraryError")

\* tru = Tru(); tru.reset_database()
CellFeedbackReset ==
    /\ pc = "feedback_reset"
    /\ records' = reset_database(records)
    /\ pc' = "recorder"
    /\ UNCHANGED <<env, using_ssl, redis_url, err, executed, overwrite,
                   indexExists, entries, prior, response, recorder, queried>>

\* provider and feedback function definitions; tru_recorder = TruLlama(...)
CellRecorder ==
    /\ pc = "recorder"
    /\ \/ /\ recorder' = TRUE
          /\ pc' = "eval_loop"
          /\ UNCHANGED <<env, using_ssl, redis_url, err, executed, overwrite,
                         indexExists, entries, prior, response, records, queried>>
       \/ Raise("LibraryError")

\* One iteration of: for question in eval_questions:
\*                       with tru_recorder as recording:
\*                           query_engine.query(question)
\* An exception leaves the with block and the for loop.
EvalLoopStep ==
    /\ pc = "eval_loop"
    /\ Len(queried) < Len(eval_questions)
    /\ LET question == eval_questions[Len(queried) + 1]
       IN  /\ queried' = Append(queried, question)
           /\ \/ /\ records' = IF recorder
                               THEN Append(records, [input |-> question, run |-> "new"])
                               ELSE records
                 /\ pc' = IF Len(queried') = Len(eval_questions)
                          THEN "get_records" ELSE "eval_loop"
                 /\ err' = err
              \/ /\ pc' = "failed"
                 /\ err' = "LibraryError"
                 /\ records' = records
           /\ UNCHANGED <<env, using_ssl, redis_url, executed, overwrite,
                          indexExists, entries, prior, response, recorder>>

\* records, feedback = tru.get_records_and_feedback(app_ids=[])
CellGetRecords ==
    /\ pc = "get_records"
    /\ Goto("done")

Next ==
    \/ CellEnv
    \/ CellClients
    \/ CellLoad
    \/ CellPromptHelper
    \/ CellServiceContext
    \/ CellRedisUrl
    \/ CellVectorStore
    \/ CellIngest
    \/ \E i \in 1..3 : CellQuery(i)
    \/ CellFeedbackReset
    \/ CellRecorder
    \/ EvalLoopStep
    \/ CellGetRecords

Spec == Init /\ [][Next]_vars

(***************************************************************************)
(* format_redis_conn_from_env as a function of its inputs: every           *)
(* combination of the argument and of the four variables it reads.         *)
(***************************************************************************)
InitFmt ==
    /\ pc = "fmt_call"
    /\ using_ssl \in BOOLEAN
    /\ \E h \in PyVals, p \in PyVals, u \in PyVals, w \in PyVals :
         env = [k \in Keys |->
                  CASE k = "REDIS_HOST" -> h
                    [] k = "REDIS_PORT" -> p
                    [] k = "REDIS_USERNAME" -> u
                    [] k = "REDIS_PASSWORD" -> w
                    [] OTHER -> SetValue]
    /\ redis_url = <<>>
    /\ err = "none"
    /\ executed = {}
    /\ overwrite = FALSE
    /\ indexExists = FALSE
    /\ entries = {}
    /\ prior = NoPrior
    /\ response = NoResponse
    /\ records = <<>>
    /\ recorder = FALSE
    /\ queried = <<>>

FmtCall ==
    /\ pc = "fmt_call"
    /\ redis_url' = format_redis_conn_from_env(using_ssl)
    /\ pc' = "fmt_done"
    /\ UNCHANGED <<env, using_ssl, err, executed, overwrite, indexExists,
                   entries, prior, response, records, recorder, queried>>

NextFmt == FmtCall

SpecFmt == InitFmt /\ [][NextFmt]_vars

(***************************************************************************)
(* Helpers for stating the properties                                      *)
(***************************************************************************)
StartsWith(s, p) == Len(s) >= Len(p) /\ SubSeq(s, 1, Len(p)) = p

EndsWith(s, t) == Len(s) >= Len(t) /\ SubSeq(s, Len(s) - Len(t) + 1, Len(s)) = t

SchemeOf(ssl) == IF ssl THEN SchemeTLS ELSE SchemePlain

HostPort == Fmt(env["REDIS_HOST"]) \o <<":">> \o Fmt(env["REDIS_PORT"])

\* What stands between the scheme and host:port in url.
UserInfo(url, ssl) == SubSeq(url, Len(SchemeOf(ssl)) + 1, Len(url) - Len(HostPort))

UsernameSet == ~env["REDIS_USERNAME"].none

PasswordSet == ~env["REDIS_PASSWORD"].none

SchemeMatchesTLS(url, ssl) ==
    /\ StartsWith(url, SchemeTLS) <=> ssl
    /\ StartsWith(url, SchemePlain) <=> ~ssl
    /\ EndsWith(url, HostPort)
    /\ Len(url) >= Len(SchemeOf(ssl)) + Len(HostPort)

MissingRequired == \E k \in RequiredKeys : env[k].none

Range(f) == {f[i] : i \in DOMAIN f}

(***************************************************************************)
(* C2 (as stated): the result is scheme://[username:password@]host:port,   *)
(* the scheme is rediss exactly when use_tls is true, and the              *)
(* username:password@ segment is present exactly when credentials (a       *)
(* username and a password) are configured.                                *)
(***************************************************************************)
C2_SegmentIffCredentials ==
    pc = "fmt_done" =>
        /\ SchemeMatchesTLS(redis_url, using_ssl)
        /\ UserInfo(redis_url, using_ssl) # <<>> <=> (UsernameSet /\ PasswordSet)

(***************************************************************************)
(* C2 (amended): the result is scheme://[username:password@]host:port,     *)
(* the scheme is rediss exactly when use_tls is true, and the              *)
(* username:password@ segment is present exactly when REDIS_PASSWORD is    *)
(* set; the username in it is REDIS_USERNAME, or empty when that is unset, *)
(* and an unset host or port is written as None.                           *)
(***************************************************************************)
C2_SegmentIffPassword ==
    pc = "fmt_done" =>
        /\ SchemeMatchesTLS(redis_url, using_ssl)
        /\ UserInfo(redis_url, using_ssl) # <<>> <=> PasswordSet
        /\ PasswordSet =>
             UserInfo(redis_url, using_ssl) =
                 (IF UsernameSet THEN env["REDIS_USERNAME"].s ELSE <<>>)
                 \o <<":">> \o env["REDIS_PASSWORD"].s \o <<"@">>

\* A secure URL with a password and no username has been produced.
C2_Witness ==
    /\ pc = "fmt_done"
    /\ using_ssl
    /\ PasswordSet
    /\ ~UsernameSet
    /\ StartsWith(redis_url, SchemeTLS \o <<":">> \o env["REDIS_PASSWORD"].s \o <<"@">>)

(***************************************************************************)
(* C3: when a required configuration key is missing, no pipeline step      *)
(* (client construction, document loading, index creation, ingestion,      *)
(* query) executes, and the run ends with ConfigurationError.              *)
(***************************************************************************)
C3_FailFast ==
    MissingRequired =>
        /\ executed = {}
        /\ pc # "done"
        /\ pc = "failed" => err = "ConfigurationError"

C5_BatchIsolation ==
    (pc = "failed" /\ queried # <<>>) => Range(queried) = Range(eval_questions)

(***************************************************************************)
(* C10: after the database reset and an evaluation loop that completed     *)
(* without error, the feedback database holds exactly one record per       *)
(* question of eval_questions, each written by the loop: none from the     *)
(* direct queries and none from before the reset.                          *)
(***************************************************************************)
C10_OneRecordPerQuestion ==
    pc \in {"get_records", "done"} =>
        /\ Len(records) = Len(eval_questions)
        /\ \A q \in Range(eval_questions) :
             Cardinality({i \in DOMAIN records : records[i].input = q}) = 1
        /\ \A i \in DOMAIN records : records[i].run = "new"

\* The run is over: three direct queries, the reset and the loop have acted.
C10_Witness ==
    /\ pc = "done"
    /\ response.question = direct_questions[3]
    /\ Len(queried) = Len(eval_questions)
    /\ records # <<>>

====
